---- MODULE Spec2Model ----
(***************************************************************************)
(* The calculator agent's entrypoint, backend/src/agents/boilerplate/      *)
(* agent.py: handler(payload, context) and create_agent(memory_config).    *)
(*                                                                         *)
(* Every invocation of handler is a process that walks the statements of   *)
(* the function body; the module-level logger and the environment-derived  *)
(* MEMORY_ID are the process-wide state all invocations see.  The agent,   *)
(* the memory configuration and the session manager are external: their    *)
(* constructors and the agent call either return or raise, chosen by the   *)
(* environment.                                                            *)
(***************************************************************************)
EXTENDS Naturals, Sequences, FiniteSets, TLC

\* ------------------------------------------------------------- bounds
\* The largest number of entries of a userMetrics mapping.
MaxMetrics == 2

\* ------------------------------------------------------------- values
\* Python's None, where a string is expected.
None == "<None>"

\* The invocations the host may run.
Invocations == {1, 2}

EmptyMap == [k \in {} |-> None]

\* Python truthiness of an optional string: None and "" are falsy.
Truthy(s) == s # None /\ s # ""

\* str(n) of a non-negative int.
Digit(d) == <<"0", "1", "2", "3", "4", "5", "6", "7", "8", "9">>[d + 1]

RECURSIVE IntToStr(_)
IntToStr(n) == IF n < 10 THEN Digit(n) ELSE IntToStr(n \div 10) \o Digit(n % 10)

\* A scalar metric value: an int or a str.
IntVal(n) == [int |-> TRUE, n |-> n, s |-> ""]
StrVal(s) == [int |-> FALSE, n |-> 0, s |-> s]

\* f"{v}" of a scalar.
Format(v) == IF v.int THEN IntToStr(v.n) ELSE v.s

\* ------------------------------------------------------------- inputs
MetricKeys == {"height", "weight", "activity"}

MetricValue(k) ==
    CASE k = "height" -> IntVal(175)
      [] k = "weight" -> IntVal(70)
      [] OTHER -> StrVal("moderate")

KeysOf(items) == {items[j][1] : j \in 1..Len(items)}

\* The mappings of exactly n entries, as the sequence of their items in
\* iteration (insertion) order.
RECURSIVE MapsOfLen(_)
MapsOfLen(n) ==
    IF n = 0 THEN {<<>>}
    ELSE UNION {{Append(m, <<k, MetricValue(k)>>) : k \in MetricKeys \ KeysOf(m)} :
                m \in MapsOfLen(n - 1)}

MetricMaps == UNION {MapsOfLen(n) : n \in 0..MaxMetrics}

PROMPT_TEXT == "Calculate my BMI"

\* A payload: None, or a dict given by its keys in insertion order.
Payload(keys, p, m) == [none |-> FALSE, keys |-> keys, prompt |-> p, userMetrics |-> m]

NoPayload == [none |-> TRUE, keys |-> <<>>, prompt |-> "", userMetrics |-> <<>>]

AllPayloads ==
    {NoPayload, Payload(<<>>, "", <<>>), Payload(<<"prompt">>, PROMPT_TEXT, <<>>)}
    \cup {Payload(<<"userMetrics">>, "", m) : m \in MetricMaps}
    \cup {Payload(<<"prompt", "userMetrics">>, PROMPT_TEXT, m) : m \in MetricMaps}

ConcPayloads ==
    {NoPayload,
     Payload(<<"prompt", "userMetrics">>, PROMPT_TEXT, <<<<"height", IntVal(175)>>>>)}

ACTOR_HEADER == "X-Amzn-Bedrock-AgentCore-Runtime-Custom-Actor-Id"

\* The value of context.headers: a dict, or an object without .get (None).
Headers(map) == [mapping |-> TRUE, map |-> map]

NotAMapping == [mapping |-> FALSE, map |-> EmptyMap]

HeaderValues ==
    {Headers(ACTOR_HEADER :> "test-user"), Headers(EmptyMap),
     Headers("Content-Type" :> "application/json"), NotAMapping}

\* A context: None, or an object with some of the attributes read.
Context(attrs, sid, h, ts) ==
    [none |-> FALSE, attrs |-> attrs,
     session_id |-> IF "session_id" \in attrs THEN sid ELSE None,
     headers |-> IF "headers" \in attrs THEN h ELSE NotAMapping,
     timestamp |-> IF "timestamp" \in attrs THEN ts ELSE None]

NoContext == [none |-> TRUE, attrs |-> {}, session_id |-> None,
              headers |-> NotAMapping, timestamp |-> None]

CtxAttrs == {"session_id", "headers", "timestamp"}

AllContexts ==
    {NoContext}
    \cup {Context(a, "test-session", h, "t0") : a \in SUBSET CtxAttrs, h \in HeaderValues}

ConcContexts ==
    {Context({"session_id", "headers"}, "session-a", Headers(ACTOR_HEADER :> "alice"), None),
     Context({"session_id", "headers"}, "session-b", Headers(ACTOR_HEADER :> "bob"), None),
     Context({"headers"}, None, NotAMapping, None)}

\* An exception: its class and str(e).
Exc(cls, msg) == [cls |-> cls, msg |-> msg]

NoExc == Exc(None, None)

\* The classes raised here, all subclasses of Exception.
ExceptionClasses == {"Exception", "AttributeError", "IndexError", "ValidationError"}

\* One segment of a message's content.
Seg(t) == [has_text |-> TRUE, text |-> t]

NoTextSeg == [has_text |-> FALSE, text |-> None]

\* What the agent call returns.
Response(hm, hc, c) == [has_message |-> hm, has_content |-> hc, content |-> c]

NoResponse == Response(FALSE, FALSE, <<>>)

BMI_TEXT == "Your BMI is 22.9, which is healthy."

ShapedResponses ==
    {Response(TRUE, TRUE, <<Seg(BMI_TEXT)>>),
     Response(TRUE, TRUE, <<Seg("Hello!"), Seg(BMI_TEXT)>>),
     Response(TRUE, TRUE, <<Seg("")>>)}

UnshapedResponses ==
    {Response(FALSE, FALSE, <<>>), Response(TRUE, FALSE, <<>>),
     Response(TRUE, TRUE, <<>>), Response(TRUE, TRUE, <<NoTextSeg, Seg(BMI_TEXT)>>)}

\* The outcome of the agent call: it raises, or returns a response.
Raises(e) == [raises |-> TRUE, exc |-> e, response |-> NoResponse]

Returns(r) == [raises |-> FALSE, exc |-> NoExc, response |-> r]

AllAgentOutcomes ==
    {Raises(Exc("Exception", "Agent processing failed"))}
    \cup {Returns(r) : r \in ShapedResponses \cup UnshapedResponses}

ConcAgentOutcomes ==
    {Raises(Exc("Exception", "Agent processing failed")),
     Returns(Response(TRUE, TRUE, <<Seg(BMI_TEXT)>>))}

\* The outcome of an external constructor.
AllCtorOutcomes == {"ok", "raise"}

ConcCtorOutcomes == {"ok"}

MemoryIds == {None, "", "test-memory-123"}

\* ------------------------------------------------- the code's functions
Range(seq) == {seq[j] : j \in 1..Len(seq)}

\* hasattr(context, name); None has none of the attributes read.
hasattr(ctx, name) == ~ctx.none /\ name \in ctx.attrs

\* `if payload`: None and the empty dict are falsy.
PayloadTruthy(p) == ~p.none /\ Len(p.keys) > 0

\* list(payload.keys()) if payload else []
PayloadKeys(p) == IF PayloadTruthy(p) THEN p.keys ELSE <<>>

\* payload.get("prompt", "") if payload else ""
GetPrompt(p) ==
    IF PayloadTruthy(p)
    THEN (IF "prompt" \in Range(p.keys) THEN p.prompt ELSE "")
    ELSE ""

\* payload.get("userMetrics", {}) if payload else {}
GetUserMetrics(p) ==
    IF PayloadTruthy(p)
    THEN (IF "userMetrics" \in Range(p.keys) THEN p.userMetrics ELSE <<>>)
    ELSE <<>>

\* getattr(context, 'session_id', 'default')
GetSessionId(ctx) == IF hasattr(ctx, "session_id") THEN ctx.session_id ELSE "default"

\* What an expression evaluates to: a value, or an exception raised.
Value(v) == [ok |-> TRUE, val |-> v, exc |-> NoExc]

Raise(e) == [ok |-> FALSE, val |-> None, exc |-> e]

\* context.headers.get(ACTOR_HEADER, 'user') if hasattr(context, 'headers') else 'user'
GetActorId(ctx) ==
    IF hasattr(ctx, "headers")
    THEN (IF ctx.headers.mapping
          THEN Value(IF ACTOR_HEADER \in DOMAIN ctx.headers.map
                     THEN ctx.headers.map[ACTOR_HEADER]
                     ELSE "user")
          ELSE Raise(Exc("AttributeError", "'NoneType' object has no attribute 'get'")))
    ELSE Value("user")

\* "agentcore" if hasattr(context, 'timestamp') else "lambda"
Runtime(ctx) == IF hasattr(ctx, "timestamp") THEN "agentcore" ELSE "lambda"

\* logger.append_keys(**new): the new keys override the logger's.
append_keys(keys, new) == new @@ keys

\* `if MEMORY_ID`
MemoryEnabledNotNone(mid) == mid # None

MemoryEnabled(mid) == Truthy(mid)

TOP_K == 3

\* relevance_score=0.5, in tenths
RELEVANCE_TENTHS == 5

RetrievalConfig(top_k, relevance) == [top_k |-> top_k, relevance_tenths |-> relevance]

\* The retrieval_config argument: two namespaces of the actor.
RetrievalTargets(aid) ==
    ("/users/" \o aid \o "/health_metrics") :> RetrievalConfig(TOP_K, RELEVANCE_TENTHS)
    @@ ("/users/" \o aid \o "/preferences") :> RetrievalConfig(TOP_K, RELEVANCE_TENTHS)

\* memory_config = None
NoneConfig ==
    [is_none |-> TRUE, memory_id |-> None, session_id |-> None, actor_id |-> None,
     retrieval_config |-> EmptyMap]

\* AgentCoreMemoryConfig(memory_id=, session_id=, actor_id=, retrieval_config=)
AgentCoreMemoryConfig(mid, sid, aid) ==
    [is_none |-> FALSE, memory_id |-> mid, session_id |-> sid, actor_id |-> aid,
     retrieval_config |-> RetrievalTargets(aid)]

REGION == "us-east-1"

MODEL_ID == "us.anthropic.claude-3-7-sonnet-20250219-v1:0"

WINDOW_SIZE == 10

NoSessionManager == [attached |-> FALSE, memory_config |-> NoneConfig, region |-> None]

\* AgentCoreMemorySessionManager(memory_config, REGION)
AgentCoreMemorySessionManager(cfg, region) ==
    [attached |-> TRUE, memory_config |-> cfg, region |-> region]

\* create_agent: the Agent built, with a session manager iff memory_config is truthy.
create_agent(cfg) ==
    [name |-> "CalculatorAgent", model_id |-> MODEL_ID, window_size |-> WINDOW_SIZE,
     tools |-> <<>>,
     session_manager |-> IF cfg.is_none THEN NoSessionManager
                         ELSE AgentCoreMemorySessionManager(cfg, REGION)]

NoAgent ==
    [name |-> None, model_id |-> None, window_size |-> 0, tools |-> <<>>,
     session_manager |-> NoSessionManager]

\* ", ".join([f"{k}: {v}" for k, v in user_metrics.items()])
RECURSIVE JoinMetrics(_)
JoinMetrics(items) ==
    IF Len(items) = 0 THEN ""
    ELSE IF Len(items) = 1 THEN items[1][1] \o ": " \o Format(items[1][2])
    ELSE items[1][1] \o ": " \o Format(items[1][2]) \o ", " \o JoinMetrics(Tail(items))

\* enhanced_prompt: the prompt, with the metrics appended when there are any.
EnhancePromptNoSeparator(p, metrics) ==
    IF Len(metrics) > 0
    THEN p \o "\n\nUser metrics:" \o JoinMetrics(metrics)
    ELSE p

EnhancePrompt(p, metrics) ==
    IF Len(metrics) > 0
    THEN p \o "\n\nUser metrics: " \o JoinMetrics(metrics)
    ELSE p

\* agent(enhanced_prompt): one more call of the agent, with its input and outcome.
AgentCall(input, o) == [input |-> input, outcome |-> o]

AgentInvokedWithRetry(calls, input, o) ==
    IF o.raises
    THEN Append(Append(calls, AgentCall(input, o)), AgentCall(input, o))
    ELSE Append(calls, AgentCall(input, o))

AgentInvoked(calls, input, o) == Append(calls, AgentCall(input, o))

\* response.message.content[0].text
ExtractTextLast(r) ==
    IF r.has_message /\ r.has_content /\ Len(r.content) > 0 /\ r.content[Len(r.content)].has_text
    THEN Value(r.content[Len(r.content)].text)
    ELSE Raise(Exc("AttributeError", "no text"))

ExtractText(r) ==
    IF ~r.has_message
    THEN Raise(Exc("AttributeError", "object has no attribute 'message'"))
    ELSE IF ~r.has_content
    THEN Raise(Exc("AttributeError", "object has no attribute 'content'"))
    ELSE IF Len(r.content) = 0
    THEN Raise(Exc("IndexError", "list index out of range"))
    ELSE IF ~r.content[1].has_text
    THEN Raise(Exc("AttributeError", "object has no attribute 'text'"))
    ELSE Value(r.content[1].text)

\* The dict returned on success.
SuccessResultNoActor(text, sid, aid, ctx) ==
    [status |-> "success", response |-> text, session_id |-> sid,
     timestamp |-> IF hasattr(ctx, "timestamp") THEN ctx.timestamp ELSE None]

SuccessResult(text, sid, aid, ctx) ==
    [status |-> "success", response |-> text, session_id |-> sid, actor_id |-> aid,
     timestamp |-> IF hasattr(ctx, "timestamp") THEN ctx.timestamp ELSE None]

\* The dict returned by the except clause.
ErrorResultWithResponse(e, ctx) ==
    [status |-> "error", error |-> e.msg, response |-> None,
     timestamp |-> IF ~ctx.none /\ hasattr(ctx, "timestamp") THEN ctx.timestamp ELSE None]

ErrorResult(e, ctx) ==
    [status |-> "error", error |-> e.msg,
     timestamp |-> IF ~ctx.none /\ hasattr(ctx, "timestamp") THEN ctx.timestamp ELSE None]

\* except Exception as e
CatchesAttributeErrorOnly(e) == e.cls = "AttributeError"

Catches(e) == e.cls \in ExceptionClasses

\* ------------------------------------------------------------- state
VARIABLES
    MEMORY_ID,          \* os.getenv("BEDROCK_AGENTCORE_MEMORY_ID"), read at import
    concurrent,         \* whether the host runs two invocations at once
    loggerKeys,         \* the keys appended to the module-level logger
    pc,                 \* where each invocation is in handler
    payload, context,   \* handler's arguments
    prompt, user_metrics, session_id, actor_id, memory_config, agent,
    enhanced_prompt, response, exc,     \* handler's locals
    result,             \* what handler returned
    memoryConfigCalls,  \* the calls of AgentCoreMemoryConfig each invocation made
    agentsBuilt,        \* the agents create_agent returned to each invocation
    agentCalls,         \* the calls of its agent each invocation made
    logs                \* the log entries each invocation emitted

args == <<payload, context>>

locals ==
    <<prompt, user_metrics, session_id, actor_id, memory_config, agent,
      enhanced_prompt, response, exc>>

history == <<memoryConfigCalls, agentsBuilt, agentCalls>>

process == <<MEMORY_ID, concurrent>>

vars == <<process, loggerKeys, pc, args, locals, result, history, logs>>

Payloads == IF concurrent THEN ConcPayloads ELSE AllPayloads

Contexts == IF concurrent THEN ConcContexts ELSE AllContexts

AgentOutcomes == IF concurrent THEN ConcAgentOutcomes ELSE AllAgentOutcomes

CtorOutcomes == IF concurrent THEN ConcCtorOutcomes ELSE AllCtorOutcomes

\* logger.info(msg) and logger.exception(msg): the entry carries the logger's keys.
LogEntry(msg, keys) == [message |-> msg, keys |-> keys]

InitLocals ==
    /\ payload = [i \in Invocations |-> NoPayload]
    /\ context = [i \in Invocations |-> NoContext]
    /\ prompt = [i \in Invocations |-> None]
    /\ user_metrics = [i \in Invocations |-> <<>>]
    /\ session_id = [i \in Invocations |-> None]
    /\ actor_id = [i \in Invocations |-> None]
    /\ memory_config = [i \in Invocations |-> NoneConfig]
    /\ agent = [i \in Invocations |-> NoAgent]
    /\ enhanced_prompt = [i \in Invocations |-> None]
    /\ response = [i \in Invocations |-> NoResponse]
    /\ exc = [i \in Invocations |-> NoExc]
    /\ result = [i \in Invocations |-> [status |-> None]]
    /\ memoryConfigCalls = [i \in Invocations |-> <<>>]
    /\ agentsBuilt = [i \in Invocations |-> <<>>]
    /\ agentCalls = [i \in Invocations |-> <<>>]
    /\ logs = [i \in Invocations |-> <<>>]
    /\ loggerKeys = EmptyMap

\* One invocation at a time.
Init ==
    /\ MEMORY_ID \in MemoryIds
    /\ concurrent = FALSE
    /\ pc = [i \in Invocations |-> IF i = 1 THEN "idle" ELSE "off"]
    /\ InitLocals

\* Two invocations, interleaved by the host.
InitConcurrent ==
    /\ MEMORY_ID \in MemoryIds
    /\ concurrent = TRUE
    /\ pc = [i \in Invocations |-> "idle"]
    /\ InitLocals

\* ----------------------------------------------------------- handler
\* The host calls handler(payload, context).
Call(i) ==
    /\ pc[i] = "idle"
    /\ \E p \in Payloads, c \in Contexts :
        /\ payload' = [payload EXCEPT ![i] = p]
        /\ context' = [context EXCEPT ![i] = c]
    /\ pc' = [pc EXCEPT ![i] = "entry"]
    /\ UNCHANGED <<process, loggerKeys, locals, result, history, logs>>

\* logger.append_keys(runtime=, payload_keys=); logger.info("Calculator agent invoked")
Entry(i) ==
    /\ pc[i] = "entry"
    /\ LET keys == append_keys(loggerKeys,
                       "runtime" :> Runtime(context[i])
                       @@ "payload_keys" :> PayloadKeys(payload[i]))
       IN /\ loggerKeys' = keys
          /\ logs' = [logs EXCEPT ![i] =
                          Append(@, LogEntry("Calculator agent invoked", keys))]
    /\ pc' = [pc EXCEPT ![i] = "extract"]
    /\ UNCHANGED <<process, args, locals, result, history>>

\* prompt = ...; user_metrics = ...
ExtractRequest(i) ==
    /\ pc[i] = "extract"
    /\ prompt' = [prompt EXCEPT ![i] = GetPrompt(payload[i])]
    /\ user_metrics' = [user_metrics EXCEPT ![i] = GetUserMetrics(payload[i])]
    /\ pc' = [pc EXCEPT ![i] = "identity"]
    /\ UNCHANGED <<process, loggerKeys, args, session_id, actor_id, memory_config,
                   agent, enhanced_prompt, response, exc, result, history, logs>>

\* session_id = ...; actor_id = ...; logger.append_keys(session_id=, actor_id=)
ResolveIdentity(i) ==
    /\ pc[i] = "identity"
    /\ session_id' = [session_id EXCEPT ![i] = GetSessionId(context[i])]
    /\ LET a == GetActorId(context[i])
       IN IF a.ok
          THEN /\ actor_id' = [actor_id EXCEPT ![i] = a.val]
               /\ loggerKeys' = append_keys(loggerKeys,
                                    "session_id" :> GetSessionId(context[i])
                                    @@ "actor_id" :> a.val)
               /\ pc' = [pc EXCEPT ![i] = "memory"]
               /\ UNCHANGED exc
          ELSE /\ exc' = [exc EXCEPT ![i] = a.exc]
               /\ pc' = [pc EXCEPT ![i] = "except"]
               /\ UNCHANGED <<actor_id, loggerKeys>>
    /\ UNCHANGED <<process, args, prompt, user_metrics, memory_config, agent,
                   enhanced_prompt, response, result, history, logs>>

\* memory_config = None; if MEMORY_ID: memory_config = AgentCoreMemoryConfig(...)
ConfigureMemory(i) ==
    /\ pc[i] = "memory"
    /\ IF MemoryEnabled(MEMORY_ID)
       THEN \E o \in CtorOutcomes :
              LET cfg == AgentCoreMemoryConfig(MEMORY_ID, session_id[i], actor_id[i])
              IN /\ memoryConfigCalls' = [memoryConfigCalls EXCEPT ![i] = Append(@, cfg)]
                 /\ IF o = "ok"
                    THEN /\ memory_config' = [memory_config EXCEPT ![i] = cfg]
                         /\ pc' = [pc EXCEPT ![i] = "create"]
                         /\ UNCHANGED exc
                    ELSE /\ exc' = [exc EXCEPT ![i] =
                                        Exc("ValidationError", "invalid memory configuration")]
                         /\ pc' = [pc EXCEPT ![i] = "except"]
                         /\ UNCHANGED memory_config
       ELSE /\ memory_config' = [memory_config EXCEPT ![i] = NoneConfig]
            /\ pc' = [pc EXCEPT ![i] = "create"]
            /\ UNCHANGED <<exc, memoryConfigCalls>>
    /\ UNCHANGED <<process, loggerKeys, args, prompt, user_metrics, session_id, actor_id,
                   agent, enhanced_prompt, response, result, agentsBuilt, agentCalls, logs>>

\* agent = create_agent(memory_config)
CreateAgent(i) ==
    /\ pc[i] = "create"
    /\ \E o \in CtorOutcomes :
         IF o = "ok"
         THEN /\ agent' = [agent EXCEPT ![i] = create_agent(memory_config[i])]
              /\ agentsBuilt' = [agentsBuilt EXCEPT ![i] =
                                     Append(@, create_agent(memory_config[i]))]
              /\ pc' = [pc EXCEPT ![i] = "enhance"]
              /\ UNCHANGED exc
         ELSE /\ exc' = [exc EXCEPT ![i] = Exc("Exception", "agent construction failed")]
              /\ pc' = [pc EXCEPT ![i] = "except"]
              /\ UNCHANGED <<agent, agentsBuilt>>
    /\ UNCHANGED <<process, loggerKeys, args, prompt, user_metrics, session_id, actor_id,
                   memory_config, enhanced_prompt, response, result, memoryConfigCalls,
                   agentCalls, logs>>

\* enhanced_prompt = ...; logger.info("Processing calculation request")
Enhance(i) ==
    /\ pc[i] = "enhance"
    /\ enhanced_prompt' = [enhanced_prompt EXCEPT ![i] =
                               EnhancePrompt(prompt[i], user_metrics[i])]
    /\ logs' = [logs EXCEPT ![i] =
                    Append(@, LogEntry("Processing calculation request", loggerKeys))]
    /\ pc' = [pc EXCEPT ![i] = "invoke"]
    /\ UNCHANGED <<process, loggerKeys, args, prompt, user_metrics, session_id, actor_id,
                   memory_config, agent, response, exc, result, history>>

\* response = agent(enhanced_prompt)
InvokeAgent(i) ==
    /\ pc[i] = "invoke"
    /\ \E o \in AgentOutcomes :
         /\ agentCalls' = [agentCalls EXCEPT ![i] = AgentInvoked(@, enhanced_prompt[i], o)]
         /\ IF o.raises
            THEN /\ exc' = [exc EXCEPT ![i] = o.exc]
                 /\ pc' = [pc EXCEPT ![i] = "except"]
                 /\ UNCHANGED response
            ELSE /\ response' = [response EXCEPT ![i] = o.response]
                 /\ pc' = [pc EXCEPT ![i] = "result"]
                 /\ UNCHANGED exc
    /\ UNCHANGED <<process, loggerKeys, args, prompt, user_metrics, session_id, actor_id,
                   memory_config, agent, enhanced_prompt, result, memoryConfigCalls,
                   agentsBuilt, logs>>

\* result = {...}; logger.info("Calculator agent completed successfully"); return result
BuildResult(i) ==
    /\ pc[i] = "result"
    /\ LET t == ExtractText(response[i])
       IN IF t.ok
          THEN /\ result' = [result EXCEPT ![i] =
                                 SuccessResult(t.val, session_id[i], actor_id[i], context[i])]
               /\ logs' = [logs EXCEPT ![i] =
                               Append(@, LogEntry("Calculator agent completed successfully",
                                                  loggerKeys))]
               /\ pc' = [pc EXCEPT ![i] = "done"]
               /\ UNCHANGED exc
          ELSE /\ exc' = [exc EXCEPT ![i] = t.exc]
               /\ pc' = [pc EXCEPT ![i] = "except"]
               /\ UNCHANGED <<result, logs>>
    /\ UNCHANGED <<process, loggerKeys, args, prompt, user_metrics, session_id, actor_id,
                   memory_config, agent, enhanced_prompt, response, history>>

\* except Exception as e: logger.exception("Calculator agent error"); return {...}
\* An exception the clause does not catch leaves handler.
Except(i) ==
    /\ pc[i] = "except"
    /\ IF Catches(exc[i])
       THEN /\ logs' = [logs EXCEPT ![i] =
                            Append(@, LogEntry("Calculator agent error", loggerKeys))]
            /\ result' = [result EXCEPT ![i] = ErrorResult(exc[i], context[i])]
            /\ pc' = [pc EXCEPT ![i] = "done"]
       ELSE /\ pc' = [pc EXCEPT ![i] = "raised"]
            /\ UNCHANGED <<result, logs>>
    /\ UNCHANGED <<process, loggerKeys, args, locals, history>>

Next ==
    \E i \in Invocations :
        \/ Call(i)
        \/ Entry(i)
        \/ ExtractRequest(i)
        \/ ResolveIdentity(i)
        \/ ConfigureMemory(i)
        \/ CreateAgent(i)
        \/ Enhance(i)
        \/ InvokeAgent(i)
        \/ BuildResult(i)
        \/ Except(i)

Spec == Init /\ [][Next]_vars

SpecConcurrent == InitConcurrent /\ [][Next]_vars

\* ------------------------------------------------------------- claims
Returned(i) == pc[i] = "done"

Called(i) == Len(agentCalls[i]) > 0

LastCall(i) == agentCalls[i][Len(agentCalls[i])]

AgentRaised(i) == Called(i) /\ LastCall(i).outcome.raises

AgentReturned(i) == Called(i) /\ ~LastCall(i).outcome.raises

\* Identity resolution has run and raised nothing.
IdentityResolved(i) == actor_id[i] # None

\* The structured shape: a message with a content list whose first segment has text.
Shaped(r) == r.has_message /\ r.has_content /\ Len(r.content) > 0 /\ r.content[1].has_text

\* C1: when the agent call raises, handler returns (it does not raise) a result of
\* status "error" whose error is the exception's message; no exception leaves handler.
C1_AgentErrorMapped ==
    \A i \in Invocations :
        /\ pc[i] # "raised"
        /\ AgentRaised(i) =>
              /\ pc[i] \in {"except", "done"}
              /\ Returned(i) =>
                    /\ result[i].status = "error"
                    /\ result[i].error = LastCall(i).outcome.exc.msg

\* C1 witness: an agent call raised and handler returned the error result.
C1_Witness ==
    \E i \in Invocations :
        /\ Returned(i)
        /\ AgentRaised(i)
        /\ result[i].error = "Agent processing failed"

\* C9: every result has status "success" or "error"; it has a response iff the status
\* is "success" and an error iff the status is "error"; a result exists only once
\* handler has returned.
C9_ResultEnvelope ==
    \A i \in Invocations :
        IF Returned(i)
        THEN /\ result[i].status \in {"success", "error"}
             /\ ("response" \in DOMAIN result[i]) <=> (result[i].status = "success")
             /\ ("error" \in DOMAIN result[i]) <=> (result[i].status = "error")
        ELSE result[i].status = None

\* C9 witness: an error result returned before any agent call, with its three keys.
C9_Witness ==
    \E i \in Invocations :
        /\ Returned(i)
        /\ result[i].status = "error"
        /\ ~Called(i)
        /\ DOMAIN result[i] = {"status", "error", "timestamp"}

\* The string C6 describes, rendered from the payload alone.
C6_BasePrompt(p) ==
    IF p.none \/ p.keys = <<>> \/ "prompt" \notin Range(p.keys) THEN "" ELSE p.prompt

C6_Metrics(p) ==
    IF p.none \/ "userMetrics" \notin Range(p.keys) THEN <<>> ELSE p.userMetrics

C6_Item(item) ==
    item[1] \o ": " \o (IF item[2].int THEN ToString(item[2].n) ELSE item[2].s)

RECURSIVE C6_Rendered(_, _)
C6_Rendered(items, n) ==
    IF n = 1 THEN C6_Item(items[1])
    ELSE C6_Rendered(items, n - 1) \o ", " \o C6_Item(items[n])

C6_Expected(p) ==
    IF C6_Metrics(p) # <<>>
    THEN C6_BasePrompt(p) \o "\n\nUser metrics: "
         \o C6_Rendered(C6_Metrics(p), Len(C6_Metrics(p)))
    ELSE C6_BasePrompt(p)

\* C6: the string the agent receives.  The base prompt is payload["prompt"], or ""
\* when the payload is None, empty or lacks the key; a non-empty userMetrics appends
\* "\n\nUser metrics: " and the "key: value" items joined by ", " in iteration order;
\* otherwise the base prompt is passed unchanged.
C6_AgentInput ==
    \A i \in Invocations :
        \A j \in 1..Len(agentCalls[i]) :
            /\ agentCalls[i][j].input = C6_Expected(payload[i])
            /\ payload[i] \in {NoPayload, Payload(<<>>, "", <<>>)} =>
                  agentCalls[i][j].input = ""
            /\ payload[i] = Payload(<<"prompt", "userMetrics">>, PROMPT_TEXT,
                                    <<<<"height", IntVal(175)>>, <<"weight", IntVal(70)>>>>) =>
                  agentCalls[i][j].input
                      = "Calculate my BMI\n\nUser metrics: height: 175, weight: 70"

\* C6 witness: two metrics rendered in the payload's own order.
C6_Witness ==
    \E i \in Invocations :
        /\ Called(i)
        /\ Len(payload[i].userMetrics) = 2
        /\ LastCall(i).input = "Calculate my BMI\n\nUser metrics: weight: 70, height: 175"

C3_Str(r) ==
    IF ~r.has_message THEN "AgentResult()"
    ELSE IF ~r.has_content THEN "AgentResult(message=Message())"
    ELSE IF Len(r.content) = 0 THEN "AgentResult(message=Message(content=[]))"
    ELSE "AgentResult(message=Message(content=[...]))"

\* C3: when the agent call returns, the result has status "success"; its response is
\* the first text segment when the structured shape is present, and str(response) of
\* the whole object when it is not.
C3_ExtractionFallsBack ==
    \A i \in Invocations :
        (Returned(i) /\ AgentReturned(i)) =>
            /\ result[i].status = "success"
            /\ result[i].response
                  = IF Shaped(LastCall(i).outcome.response)
                    THEN LastCall(i).outcome.response.content[1].text
                    ELSE C3_Str(LastCall(i).outcome.response)

\* The identity C4 describes, read from the context alone.
C4_SessionId(ctx) ==
    IF ~ctx.none /\ "session_id" \in ctx.attrs THEN ctx.session_id ELSE "default"

C4_ActorId(ctx) ==
    IF /\ ~ctx.none
       /\ "headers" \in ctx.attrs
       /\ ctx.headers.mapping
       /\ ACTOR_HEADER \in DOMAIN ctx.headers.map
    THEN ctx.headers.map[ACTOR_HEADER]
    ELSE "user"

\* C4: once identity resolution has run, for every context, session_id is
\* context.session_id when present else "default", actor_id is the header's value when
\* context.headers is a mapping holding the header else "user", and the step has
\* raised nothing; a success result holds these values.
C4_IdentityAlwaysResolved ==
    \A i \in Invocations :
        pc[i] \notin {"off", "idle", "entry", "extract", "identity"} =>
            /\ session_id[i] = C4_SessionId(context[i])
            /\ actor_id[i] = C4_ActorId(context[i])
            /\ ~Called(i) /\ pc[i] \in {"except", "done"} =>
                  exc[i].cls # "AttributeError"
            /\ (Returned(i) /\ result[i].status = "success") =>
                  /\ result[i].session_id = C4_SessionId(context[i])
                  /\ result[i].actor_id = C4_ActorId(context[i])

\* An exception raised before the agent call: by identity resolution or a constructor.
C5_RaisedBeforeCall(i) ==
    exc[i] \in {Exc("AttributeError", "'NoneType' object has no attribute 'get'"),
                Exc("ValidationError", "invalid memory configuration"),
                Exc("Exception", "agent construction failed")}

\* C5 as stated: a call of handler that has returned has invoked the agent exactly
\* once, and no call invokes it more than once (stated of the calls whose identity
\* resolution raised nothing).
C5_ExactlyOneInvocation ==
    \A i \in Invocations :
        /\ Len(agentCalls[i]) <= 1
        /\ (Returned(i) /\ IdentityResolved(i)) => Len(agentCalls[i]) = 1

\* C5 as amended: a call of handler invokes the agent at most once (never again after
\* a failure) and returns exactly one result; it returns without having invoked the
\* agent exactly when a step before the agent call raised, and the result is then of
\* status "error".
C5_AtMostOneInvocation ==
    \A i \in Invocations :
        /\ Len(agentCalls[i]) <= 1
        /\ pc[i] # "raised"
        /\ IF Returned(i)
           THEN /\ result[i].status \in {"success", "error"}
                /\ result[i].status = "success" => Len(agentCalls[i]) = 1
                /\ (Len(agentCalls[i]) = 0) <=> C5_RaisedBeforeCall(i)
           ELSE result[i].status = None /\ (Called(i) => pc[i] \in {"result", "except"})

\* C5 witness: a call that returned without invoking the agent, a constructor having raised.
C5_Witness ==
    \E i \in Invocations :
        /\ Returned(i)
        /\ Len(agentCalls[i]) = 0
        /\ exc[i].msg = "agent construction failed"
        /\ result[i].status = "error"

\* The memory configuration C7 describes, for an invocation's resolved identity.
C7_Scoped(cfg, i) ==
    /\ ~cfg.is_none
    /\ cfg.memory_id = MEMORY_ID
    /\ cfg.session_id = session_id[i]
    /\ cfg.actor_id = actor_id[i]
    /\ DOMAIN cfg.retrieval_config
          = {"/users/" \o actor_id[i] \o "/health_metrics",
             "/users/" \o actor_id[i] \o "/preferences"}
    /\ Cardinality(DOMAIN cfg.retrieval_config) = 2
    /\ \A path \in DOMAIN cfg.retrieval_config :
          /\ cfg.retrieval_config[path].top_k = 3
          /\ cfg.retrieval_config[path].relevance_tenths = 5

C7_MemoryIdSet == MEMORY_ID # None /\ MEMORY_ID # ""

\* C7 as stated: with the memory identifier unset or empty no memory configuration is
\* constructed and the agent is built with no session manager; with it set, a call of
\* handler constructs exactly one memory configuration, scoped to the resolved
\* identity with the two retrieval targets, and exactly one agent, whose session
\* manager is built from that configuration (stated of the calls whose identity
\* resolution raised nothing).
C7_ExactlyOneMemoryConfig ==
    \A i \in Invocations :
        (Returned(i) /\ IdentityResolved(i)) =>
            IF C7_MemoryIdSet
            THEN /\ Len(memoryConfigCalls[i]) = 1
                 /\ C7_Scoped(memoryConfigCalls[i][1], i)
                 /\ Len(agentsBuilt[i]) = 1
                 /\ agentsBuilt[i][1].session_manager.attached
                 /\ agentsBuilt[i][1].session_manager.memory_config = memoryConfigCalls[i][1]
            ELSE /\ Len(memoryConfigCalls[i]) = 0
                 /\ \A j \in 1..Len(agentsBuilt[i]) :
                       ~agentsBuilt[i][j].session_manager.attached

\* C7 as amended: with the memory identifier unset or empty no memory configuration
\* is constructed and every agent built has no session manager; with it set, a call
\* of handler invokes the memory-configuration constructor at most once, exactly
\* once when it gets past identity resolution, always scoped to the resolved identity
\* with the two retrieval targets (top_k 3, relevance 0.5), and it builds at most one
\* agent, exactly one when it reaches the agent call, whose session manager is built
\* from that configuration and the region.
C7_MemoryAttachedIffConfigured ==
    \A i \in Invocations :
        /\ Len(agentsBuilt[i]) <= 1
        /\ Called(i) => Len(agentsBuilt[i]) = 1
        /\ IF C7_MemoryIdSet
           THEN /\ Len(memoryConfigCalls[i]) <= 1
                /\ (Len(memoryConfigCalls[i]) = 1)
                      <=> (IdentityResolved(i) /\ pc[i] # "memory")
                /\ \A j \in 1..Len(memoryConfigCalls[i]) :
                      C7_Scoped(memoryConfigCalls[i][j], i)
                /\ \A j \in 1..Len(agentsBuilt[i]) :
                      /\ agentsBuilt[i][j].session_manager.attached
                      /\ agentsBuilt[i][j].session_manager.memory_config
                            = memoryConfigCalls[i][1]
                      /\ agentsBuilt[i][j].session_manager.region = REGION
           ELSE /\ Len(memoryConfigCalls[i]) = 0
                /\ \A j \in 1..Len(agentsBuilt[i]) :
                      ~agentsBuilt[i][j].session_manager.attached

\* C7 witness: a successful call with memory configured: one configuration, one agent with a session manager.
C7_Witness ==
    \E i \in Invocations :
        /\ Returned(i)
        /\ result[i].status = "success"
        /\ MEMORY_ID = "test-memory-123"
        /\ Len(memoryConfigCalls[i]) = 1
        /\ memoryConfigCalls[i][1].actor_id = "test-user"
        /\ "/users/test-user/preferences" \in DOMAIN memoryConfigCalls[i][1].retrieval_config
        /\ Len(agentsBuilt[i]) = 1
        /\ agentsBuilt[i][1].session_manager.attached

\* C8 as stated: a result of status "success" holds a non-empty text that the agent
\* returned.
C8_SuccessResponseNonEmpty ==
    \A i \in Invocations :
        (Returned(i) /\ result[i].status = "success") =>
            /\ AgentReturned(i)
            /\ result[i].response # ""
            /\ result[i].response # None

\* C8 as amended: a result of status "success" holds the text of the first content
\* segment of the object the agent returned, which has the structured shape; the text
\* may be empty.
C8_SuccessResponseFromAgent ==
    \A i \in Invocations :
        (Returned(i) /\ result[i].status = "success") =>
            /\ AgentReturned(i)
            /\ Shaped(LastCall(i).outcome.response)
            /\ result[i].response = LastCall(i).outcome.response.content[1].text

\* C8 witness: a success result whose response is the empty text the agent returned.
C8_Witness ==
    \E i \in Invocations :
        /\ Returned(i)
        /\ result[i].status = "success"
        /\ result[i].response = ""

\* C10: concurrent invocations share no mutable state: what an invocation reads was
\* written by no other invocation, so every log entry it emits carries the identity
\* keys it appended itself, and its memory configuration, agent and agent input are
\* those of its own payload and context.
C10_NoSharedMutableState ==
    \A i \in Invocations :
        /\ \A j \in 1..Len(logs[i]) :
              /\ "session_id" \in DOMAIN logs[i][j].keys =>
                    logs[i][j].keys["session_id"] = session_id[i]
              /\ "actor_id" \in DOMAIN logs[i][j].keys =>
                    logs[i][j].keys["actor_id"] = actor_id[i]
        /\ \A j \in 1..Len(memoryConfigCalls[i]) :
              /\ memoryConfigCalls[i][j].session_id = C4_SessionId(context[i])
              /\ memoryConfigCalls[i][j].actor_id = actor_id[i]
        /\ \A j \in 1..Len(agentCalls[i]) :
              agentCalls[i][j].input = C6_Expected(payload[i])

\* The part of C10 that holds: the memory configuration, the agent, the agent input
\* and the result of an invocation are those of its own payload and context.
C10_OutputsOwn ==
    \A i \in Invocations :
        /\ \A j \in 1..Len(memoryConfigCalls[i]) :
              /\ memoryConfigCalls[i][j].session_id = C4_SessionId(context[i])
              /\ memoryConfigCalls[i][j].actor_id = actor_id[i]
        /\ \A j \in 1..Len(agentCalls[i]) :
              agentCalls[i][j].input = C6_Expected(payload[i])
        /\ (Returned(i) /\ result[i].status = "success") =>
              /\ result[i].session_id = C4_SessionId(context[i])
              /\ result[i].response = LastCall(i).outcome.response.content[1].text

====
